---- MODULE Spec2Model ----
(***************************************************************************)
(* Model of the two programs of the repository:                            *)
(*   backend/server.py  - the forwarder: proxy() relays one inbound HTTP    *)
(*                        request to the fixed upstream NEXTJS_URL;         *)
(*   backend_test.py    - the probe script: six sequential probes, a        *)
(*                        summary and an exit code.                         *)
(* Strings of the program that the code takes apart (paths, URLs, header    *)
(* values) are sequences of tokens; dicts are sequences of <<key, value>>   *)
(* pairs with unique keys, in insertion order, as Python dicts are.         *)
(***************************************************************************)
EXTENDS Integers, Sequences, FiniteSets, TLC

VARIABLES pc, inbound, sent, upstream, result,
          ppc, tests_run, tests_passed, failed_tests, observed, executed,
          ret, exit_code

proxyVars == <<pc, inbound, sent, upstream, result>>
probeVars == <<ppc, tests_run, tests_passed, failed_tests, observed, executed,
               ret, exit_code>>
vars == <<pc, inbound, sent, upstream, result,
          ppc, tests_run, tests_passed, failed_tests, observed, executed,
          ret, exit_code>>

(***************************************************************************)
(* Bounds of the model.                                                    *)
(***************************************************************************)
MaxQuery == 2
MaxHeaders == 2

RECURSIVE SeqsUpTo(_, _)
SeqsUpTo(S, n) ==
    IF n = 0 THEN {<<>>}
    ELSE LET shorter == SeqsUpTo(S, n - 1)
         IN shorter \cup {Append(s, x) : s \in shorter, x \in S}

(***************************************************************************)
(* Generic dict helpers.                                                   *)
(***************************************************************************)
Keys(d) == {d[i][1] : i \in 1..Len(d)}
Get(d, k) == d[CHOOSE i \in 1..Len(d) : d[i][1] = k][2]
Count(s, x) == Cardinality({i \in 1..Len(s) : s[i] = x})

(***************************************************************************)
(* backend/server.py                                                       *)
(***************************************************************************)
NEXTJS_URL == <<"http://", "127.0.0.1:3000">>
UpstreamAuthority == NEXTJS_URL[2]

\* A methods list that leaves OPTIONS out.
MethodsWithoutOptions == {"GET", "POST", "PUT", "DELETE", "PATCH"}

ROUTE_METHODS == {"GET", "POST", "PUT", "DELETE", "PATCH", "OPTIONS"}

\* Inputs: methods a client may send, decoded request paths (always with the
\* leading "/"; "?" is a literal question mark of the decoded path, sent as
\* %3F), query strings as lists of key/value pairs, request headers with
\* lower-case names, request bodies.
Methods == {"GET", "POST", "PUT", "DELETE", "PATCH", "OPTIONS", "HEAD"}
Paths == { <<"/">>,
           <<"/", "api", "/", "health">>,
           <<"/", "a", "?", "b">> }
QueryPairs == { <<"a", "1">>, <<"a", "2">>, <<"b", "1">> }
Queries == SeqsUpTo(QueryPairs, MaxQuery)
Hosts == {"example.com:8001", UpstreamAuthority}
RequestHeaders == { <<<<"host", h>>, <<"accept", "*/*">>>> : h \in Hosts }
Bodies == {"{\"keywords\":\"\"}"}

Requests == [method : Methods, path : Paths, query : Queries,
             headers : RequestHeaders, body : Bodies]

NoRequest == [method |-> "none", path |-> <<>>, query |-> <<>>,
              headers |-> <<>>, body |-> ""]

\* @app.api_route("/{path:path}", methods=[...]): the path convertor matches
\* everything after the leading "/", the empty string included; a request
\* whose path matches but whose method is not listed is answered 405 by the
\* router and never reaches proxy().
RouteMatchesPath(req) == req.path # <<>> /\ req.path[1] = "/"
Route(req) ==
    IF ~RouteMatchesPath(req) THEN "not_found"
    ELSE IF req.method \notin ROUTE_METHODS THEN "method_not_allowed"
    ELSE "proxy"
RoutePath(req) == Tail(req.path)

\* url = f"{NEXTJS_URL}/{path}"
FormatUrl(path) == NEXTJS_URL \o <<"/">> \o path

\* The client splits the URL it is given: scheme, authority, then the path up
\* to the first "?" or "#"; what follows is the URL's own query or fragment.
UrlDelims == {"?", "#"}
UrlRest(url) == SubSeq(url, 3, Len(url))
UrlCut(url) ==
    LET rest == UrlRest(url)
        hits == {i \in 1..Len(rest) : rest[i] \in UrlDelims}
    IN IF hits = {} THEN Len(rest) + 1
       ELSE CHOOSE i \in hits : \A j \in hits : i <= j
UrlPath(url) == SubSeq(UrlRest(url), 1, UrlCut(url) - 1)
UrlTail(url) == SubSeq(UrlRest(url), UrlCut(url), Len(UrlRest(url)))
UrlAuthority(url) == url[2]

\* dict(request.headers): one entry per name, the first value of each.
RECURSIVE DictFirst(_)
DictFirst(pairs) ==
    IF pairs = <<>> THEN <<>>
    ELSE LET init == DictFirst(SubSeq(pairs, 1, Len(pairs) - 1))
             p == pairs[Len(pairs)]
         IN IF p[1] \in Keys(init) THEN init ELSE Append(init, p)

\* dict(request.query_params): one entry per key, at the position of the
\* key's first occurrence, holding the value of its last occurrence.
RECURSIVE DictLast(_)
DictLast(pairs) ==
    IF pairs = <<>> THEN <<>>
    ELSE LET init == DictLast(SubSeq(pairs, 1, Len(pairs) - 1))
             p == pairs[Len(pairs)]
         IN IF p[1] \in Keys(init)
            THEN [i \in 1..Len(init) |-> IF init[i][1] = p[1] THEN p ELSE init[i]]
            ELSE Append(init, p)

\* The inbound headers handed on without the pop.
KeepHost(d) == d

\* headers.pop("host", None)
PopHost(d) == SelectSeq(d, LAMBDA p : p[1] # "host")

\* The Host header the client puts on the wire: the one it was handed, else
\* the authority of the URL.
WireHost(headers, url) ==
    IF "host" \in Keys(headers) THEN Get(headers, "host") ELSE UrlAuthority(url)

\* client.request(method=, url=, headers=, content=, params=)
BuildOutbound(req) ==
    LET url == FormatUrl(RoutePath(req))
        headers == PopHost(DictFirst(req.headers))
    IN [method |-> req.method,
        authority |-> UrlAuthority(url),
        path |-> UrlPath(url),
        url_tail |-> UrlTail(url),
        params |-> DictLast(req.query),
        headers |-> headers,
        host |-> WireHost(headers, url),
        content |-> req.body]

\* Upstream responses: a status, the body, and the header list as the
\* upstream wrote it (names in any case, a name possibly more than once).
\* A header value is a sequence of tokens.
Statuses == {200, 400, 503}
ResponseBodies == {"{\"ok\":true}", "{\"error\":\"validation\"}"}
ResponseHeaderPairs == { <<"Content-Length", <<"17">>>>,
                         <<"CONTENT-ENCODING", <<"gzip">>>>,
                         <<"transfer-encoding", <<"chunked">>>>,
                         <<"Set-Cookie", <<"a=1">>>>,
                         <<"Set-Cookie", <<"b=2">>>> }
ResponseHeaders == SeqsUpTo(ResponseHeaderPairs, MaxHeaders)
Responses == [type : {"response"}, status : Statuses, content : ResponseBodies,
              headers : ResponseHeaders, exc : {"none"}]

\* Transport failures of the upstream call, with the client library's
\* exception classes and their base classes.
Exceptions == {"ConnectError", "ConnectTimeout", "ReadTimeout", "ReadError"}
Parent(cls) ==
    CASE cls = "ConnectError" -> "NetworkError"
      [] cls = "ReadError" -> "NetworkError"
      [] cls = "ConnectTimeout" -> "TimeoutException"
      [] cls = "ReadTimeout" -> "TimeoutException"
      [] cls = "NetworkError" -> "TransportError"
      [] cls = "TimeoutException" -> "TransportError"
      [] cls = "TransportError" -> "RequestError"
      [] cls = "RequestError" -> "HTTPError"
      [] cls = "HTTPError" -> "Exception"
      [] OTHER -> "object"
RECURSIVE IsInstance(_, _)
IsInstance(cls, base) ==
    IF cls = base THEN TRUE
    ELSE IF cls = "object" THEN FALSE
    ELSE IsInstance(Parent(cls), base)
Failures == [type : {"error"}, status : {0}, content : {""},
             headers : {<<>>}, exc : Exceptions]
NoUpstream == [type |-> "none", status |-> 0, content |-> "",
               headers |-> <<>>, exc |-> "none"]

\* str.lower() on the header names of the model.
Lower(name) ==
    CASE name = "Content-Length" -> "content-length"
      [] name = "CONTENT-ENCODING" -> "content-encoding"
      [] name = "Set-Cookie" -> "set-cookie"
      [] OTHER -> name

\* response.headers.items(): one pair per lower-cased name, in the order of
\* the names' first occurrences; the values of a repeated name are joined
\* with ", ".
RECURSIVE HeadersItems(_)
HeadersItems(raw) ==
    IF raw = <<>> THEN <<>>
    ELSE LET init == HeadersItems(SubSeq(raw, 1, Len(raw) - 1))
             k == Lower(raw[Len(raw)][1])
             v == raw[Len(raw)][2]
         IN IF k \in Keys(init)
            THEN [i \in 1..Len(init) |->
                    IF init[i][1] = k
                    THEN <<k, init[i][2] \o <<", ">> \o v>>
                    ELSE init[i]]
            ELSE Append(init, <<k, v>>)

\* The filter applied to the raw header names, without lower().
RawFilteredHeaders(resp) ==
    SelectSeq(resp.headers,
              LAMBDA p : p[1] \notin {"transfer-encoding", "content-encoding",
                                      "content-length"})

excluded_headers == {"transfer-encoding", "content-encoding", "content-length"}

\* {k: v for k, v in response.headers.items() if k.lower() not in excluded_headers}
response_headers(resp) ==
    SelectSeq(HeadersItems(resp.headers),
              LAMBDA p : Lower(p[1]) \notin excluded_headers)

NoResult == [kind |-> "none", status |-> 0, content |-> "", headers |-> <<>>,
             media_type |-> "none", exc |-> "none"]

\* A handler that catches every transport error.
CatchTransportError == "TransportError"

\* A fallback that answers 500.
FallbackWith500 ==
    [kind |-> "fallback", status |-> 500,
     content |-> "{\"error\":\"Next.js server not ready\"}",
     headers |-> <<>>, media_type |-> "application/json", exc |-> "none"]

\* except httpx.ConnectError: return Response(content=..., status_code=503, ...)
CaughtClass == "ConnectError"
ConnectErrorResponse ==
    [kind |-> "fallback", status |-> 503,
     content |-> "{\"error\":\"Next.js server not ready\"}",
     headers |-> <<>>, media_type |-> "application/json", exc |-> "none"]

\* return Response(content=response.content, status_code=..., headers=...):
\* the status, body and headers proxy() gives the response it returns.
RelayResponse(resp) ==
    [kind |-> "relayed", status |-> resp.status, content |-> resp.content,
     headers |-> response_headers(resp), media_type |-> "none", exc |-> "none"]

\* An exception the handler does not catch leaves proxy().
Raised(exc) ==
    [kind |-> "raised", status |-> 0, content |-> "", headers |-> <<>>,
     media_type |-> "none", exc |-> exc]

\* The router's own answer to a request it does not hand to proxy().
RouterResponse(route) ==
    [kind |-> "rejected", status |-> IF route = "not_found" THEN 404 ELSE 405,
     content |-> "", headers |-> <<>>, media_type |-> "none", exc |-> "none"]

\* An inbound request arrives: the router either answers it itself or calls
\* proxy(), which builds the outbound request and issues it (lines 20-34).
Receive(req) ==
    /\ pc = "idle"
    /\ inbound' = req
    /\ IF Route(req) = "proxy"
       THEN /\ sent' = Append(sent, BuildOutbound(req))
            /\ pc' = "awaiting"
            /\ result' = result
       ELSE /\ sent' = sent
            /\ pc' = "done"
            /\ result' = RouterResponse(Route(req))
    /\ UNCHANGED <<upstream, probeVars>>

\* The awaited call returns a response: lines 42-51.
UpstreamResponds(resp) ==
    /\ pc = "awaiting"
    /\ upstream' = resp
    /\ result' = RelayResponse(resp)
    /\ pc' = "done"
    /\ UNCHANGED <<inbound, sent, probeVars>>

\* The awaited call raises: lines 35-40, or the exception propagates.
UpstreamFails(f) ==
    /\ pc = "awaiting"
    /\ upstream' = f
    /\ result' = IF IsInstance(f.exc, CaughtClass)
                 THEN ConnectErrorResponse
                 ELSE Raised(f.exc)
    /\ pc' = "done"
    /\ UNCHANGED <<inbound, sent, probeVars>>

\* The exchange is over; nothing of it is retained.
Finish ==
    /\ pc = "done"
    /\ pc' = "idle"
    /\ inbound' = NoRequest
    /\ sent' = <<>>
    /\ upstream' = NoUpstream
    /\ result' = NoResult
    /\ UNCHANGED probeVars

(***************************************************************************)
(* backend_test.py                                                         *)
(***************************************************************************)
\* What one HTTP call of the probe script can yield: a response with a status
\* and a payload, a timeout, or another transport exception.  A payload is
\* not JSON, a JSON list, or a JSON object whose "error" member is absent, a
\* string, or an object with or without a "code".
EmptyDict == [type |-> "dict", error |-> "absent", code |-> "absent"]
Payloads == { [type |-> "not_json", error |-> "absent", code |-> "absent"],
              [type |-> "list", error |-> "absent", code |-> "absent"],
              EmptyDict,
              [type |-> "dict", error |-> "string", code |-> "absent"],
              [type |-> "dict", error |-> "dict", code |-> "OTHER"],
              [type |-> "dict", error |-> "dict", code |-> "SERVICE_UNAVAILABLE"] }
ProbeStatuses == {200, 400, 520}
Outcomes == [kind : {"response"}, status : ProbeStatuses, json : Payloads]
            \cup [kind : {"timeout", "exception"}, status : {0}, json : {EmptyDict}]

Probes == <<"health", "status", "cache", "valid", "empty", "invalid_json">>

\* The expected status each probe passes to run_test (or compares with).
ExpectedStatus(name) ==
    CASE name = "health" -> 200
      [] name = "status" -> 200
      [] name = "cache" -> 200
      [] name = "valid" -> 520
      [] name = "empty" -> 400
      [] name = "invalid_json" -> 400

\* success = response.status_code == expected_status
StatusMatches(status, expected) == status = expected

\* What run_test returns: (True, response_json or {}) on a matching status,
\* (False, {}) otherwise.
RunTestReturn(expected, o) ==
    IF o.kind = "response" /\ StatusMatches(o.status, expected)
    THEN <<TRUE, IF o.json.type = "not_json" THEN EmptyDict ELSE o.json>>
    ELSE <<FALSE, EmptyDict>>

\* run_test: counts the test, counts it as passed on a matching status and
\* records it in failed_tests otherwise (mismatch, timeout, exception).
RunTest(name, o) ==
    /\ tests_run' = tests_run + 1
    /\ tests_passed' = IF RunTestReturn(ExpectedStatus(name), o)[1]
                       THEN tests_passed + 1 ELSE tests_passed
    /\ failed_tests' = IF RunTestReturn(ExpectedStatus(name), o)[1]
                       THEN failed_tests ELSE Append(failed_tests, name)
    /\ ret' = RunTestReturn(ExpectedStatus(name), o)
    /\ observed' = Append(observed, [kind |-> o.kind, status |-> o.status])
    /\ executed' = Append(executed, name)

\* response.get('error', {}).get('code') raises AttributeError when response
\* is not a dict or its "error" member is not a dict.
GetErrorCodeRaises(response) ==
    response.type # "dict" \/ response.error \notin {"absent", "dict"}

test_health_check(o) ==
    /\ ppc = "health"
    /\ RunTest("health", o)
    /\ ppc' = "status"
    /\ UNCHANGED <<exit_code, proxyVars>>

test_search_status(o) ==
    /\ ppc = "status"
    /\ RunTest("status", o)
    /\ ppc' = "cache"
    /\ UNCHANGED <<exit_code, proxyVars>>

test_cache_stats(o) ==
    /\ ppc = "cache"
    /\ RunTest("cache", o)
    /\ ppc' = "valid"
    /\ UNCHANGED <<exit_code, proxyVars>>

\* test_search_valid: run_test, then the check of the payload; main() ignores
\* the returned pair.  An AttributeError of the payload check is caught
\* nowhere: it ends the process with a traceback and exit status 1.
test_search_valid(o) ==
    /\ ppc = "valid"
    /\ RunTest("valid", o)
    /\ LET r == RunTestReturn(ExpectedStatus("valid"), o)
       IN IF r[1] /\ GetErrorCodeRaises(r[2])
          THEN ppc' = "crashed" /\ exit_code' = 1
          ELSE ppc' = "empty" /\ exit_code' = exit_code
    /\ UNCHANGED proxyVars

test_search_invalid_empty_keywords(o) ==
    /\ ppc = "empty"
    /\ RunTest("empty", o)
    /\ ppc' = "invalid_json"
    /\ UNCHANGED <<exit_code, proxyVars>>

\* test_search_invalid_json: its own request; tests_run is incremented on
\* both paths, tests_passed on a 400 only.
test_search_invalid_json(o) ==
    /\ ppc = "invalid_json"
    /\ LET success == o.kind = "response"
                      /\ StatusMatches(o.status, ExpectedStatus("invalid_json"))
       IN /\ tests_passed' = IF success THEN tests_passed + 1 ELSE tests_passed
          /\ failed_tests' = IF success THEN failed_tests
                             ELSE Append(failed_tests, "invalid_json")
          /\ ret' = <<success, EmptyDict>>
    /\ tests_run' = tests_run + 1
    /\ observed' = Append(observed, [kind |-> o.kind, status |-> o.status])
    /\ executed' = Append(executed, "invalid_json")
    /\ ppc' = "summary"
    /\ UNCHANGED <<exit_code, proxyVars>>

\* An exit code that only asks for one passed test.
ExitCodeAnyPassed(passed, run) == IF passed > 0 THEN 0 ELSE 1

\* return 0 if tester.tests_passed == tester.tests_run else 1
ExitCode(passed, run) == IF passed = run THEN 0 ELSE 1

\* main() after the probes: the summary (the success rate divides by
\* tests_run) and the exit code handed to sys.exit.
Summary ==
    /\ ppc = "summary"
    /\ IF tests_run = 0
       THEN ppc' = "crashed" /\ exit_code' = 1
       ELSE ppc' = "done" /\ exit_code' = ExitCode(tests_passed, tests_run)
    /\ UNCHANGED <<tests_run, tests_passed, failed_tests, observed, executed,
                   ret, proxyVars>>

ProbeInit ==
    /\ ppc = "health"
    /\ tests_run = 0
    /\ tests_passed = 0
    /\ failed_tests = <<>>
    /\ observed = <<>>
    /\ executed = <<>>
    /\ ret = <<FALSE, EmptyDict>>
    /\ exit_code = -1

Init ==
    /\ pc = "idle"
    /\ inbound = NoRequest
    /\ sent = <<>>
    /\ upstream = NoUpstream
    /\ result = NoResult
    /\ ProbeInit

Next ==
    \/ \E req \in Requests : Receive(req)
    \/ \E resp \in Responses : UpstreamResponds(resp)
    \/ \E f \in Failures : UpstreamFails(f)
    \/ Finish

Spec == Init /\ [][Next]_vars

ProbeNext ==
    \/ \E o \in Outcomes : test_health_check(o)
    \/ \E o \in Outcomes : test_search_status(o)
    \/ \E o \in Outcomes : test_cache_stats(o)
    \/ \E o \in Outcomes : test_search_valid(o)
    \/ \E o \in Outcomes : test_search_invalid_empty_keywords(o)
    \/ \E o \in Outcomes : test_search_invalid_json(o)
    \/ Summary

ProbeSpec == Init /\ [][ProbeNext]_vars

(***************************************************************************)
(* Properties of the forwarder (checked under Spec).                       *)
(***************************************************************************)
Handled == pc \in {"awaiting", "done"} /\ Route(inbound) = "proxy"
InboundHost == Get(inbound.headers, "host")

\* C1: for every supported method M and every path P, one inbound request
\* handled by proxy() causes exactly one outbound request to the fixed
\* upstream, whatever the upstream outcome, and that request has method M
\* and path P.
C1_ExactlyOneOutboundSameMethodPath ==
    Handled =>
        /\ Len(sent) = 1
        /\ sent[1].authority = UpstreamAuthority
        /\ sent[1].method = inbound.method
        /\ sent[1].path = inbound.path

\* The part of C1 that does not concern the path: exactly one outbound
\* request, with the inbound method, to the fixed upstream.
ExactlyOneOutbound ==
    Handled =>
        /\ Len(sent) = 1
        /\ sent[1].authority = UpstreamAuthority
        /\ sent[1].method = inbound.method

\* C2: when the upstream call raises ConnectError, proxy() returns status 503
\* with the fixed body and media type application/json, for every method and
\* path, having issued one outbound request only.
C2_ConnectErrorGives503 ==
    (pc = "done" /\ upstream.type = "error" /\ upstream.exc = "ConnectError") =>
        /\ result.status = 503
        /\ result.content = "{\"error\":\"Next.js server not ready\"}"
        /\ result.media_type = "application/json"
        /\ result.kind = "fallback"
        /\ Len(sent) = 1
C2_Witness ==
    /\ pc = "done"
    /\ upstream.exc = "ConnectError"
    /\ inbound.method = "POST"
    /\ inbound.path = <<"/", "api", "/", "health">>
    /\ result.status = 503

\* C3: whenever the upstream returns a response, the returned response has
\* the same status, the same body and exactly the upstream's headers with
\* their values (names compared case-insensitively) except the three
\* excluded ones; nothing is added, dropped, merged or rewritten.
UpstreamHeadersKept ==
    SelectSeq([i \in 1..Len(upstream.headers) |->
                  <<Lower(upstream.headers[i][1]), upstream.headers[i][2]>>],
              LAMBDA p : p[1] \notin {"transfer-encoding", "content-encoding",
                                      "content-length"})
C3_RelayIsVerbatim ==
    (pc = "done" /\ upstream.type = "response") =>
        /\ result.status = upstream.status
        /\ result.content = upstream.content
        /\ result.headers = UpstreamHeadersKept

\* C4: the outbound query string carries every key/value pair of the inbound
\* query string, with its multiplicity (repeated keys and the empty query
\* string included).
C4_QueryPreserved ==
    Handled =>
        \A p \in QueryPairs : Count(sent[1].params, p) = Count(inbound.query, p)

\* C5 as stated: whatever the inbound Host value, the Host header of the
\* outbound request never equals it.
C5_OutboundHostDiffers ==
    Handled => sent[1].host # InboundHost

\* C5 as amended: the inbound Host header is never passed on; the outbound
\* Host is the upstream authority, so it differs from the inbound value
\* whenever that value is not the upstream authority itself.
C5_HostNotCopied ==
    Handled =>
        /\ "host" \notin Keys(sent[1].headers)
        /\ sent[1].host = "127.0.0.1:3000"
        /\ (InboundHost # "127.0.0.1:3000" => sent[1].host # InboundHost)
C5_Witness ==
    /\ Handled
    /\ InboundHost = "example.com:8001"
    /\ sent[1].host = "127.0.0.1:3000"
    /\ Len(sent[1].headers) = 1

C10_OnlyConnectErrorFallsBack ==
    /\ (pc = "done" /\ upstream.type = "error" /\ upstream.exc # "ConnectError") =>
            /\ result.kind = "raised"
            /\ result.exc = upstream.exc
            /\ result.status # 503
    /\ result.kind = "fallback" =>
            upstream.type = "error" /\ upstream.exc = "ConnectError"
C10_Witness ==
    /\ pc = "done"
    /\ upstream.exc = "ReadTimeout"
    /\ result.kind = "raised"
    /\ Len(sent) = 1

(***************************************************************************)
(* Properties of the probe script (checked under ProbeSpec).               *)
(***************************************************************************)
Terminated == ppc \in {"done", "crashed"}
Matched(i) ==
    /\ i <= Len(observed)
    /\ observed[i].kind = "response"
    /\ observed[i].status = ExpectedStatus(Probes[i])
AllMatched == \A i \in 1..Len(Probes) : Matched(i)

\* C7: the final exit code is 0 if and only if every probe observed its
\* expected status; a timeout or transport exception makes it 1; and when
\* main() returns, tests_passed equals tests_run exactly when all matched.
C7_ExitCodeIffAllMatched ==
    /\ Terminated => (exit_code = 0 <=> AllMatched)
    /\ Terminated => exit_code \in {0, 1}
    /\ (Terminated /\ \E i \in 1..Len(observed) : observed[i].kind # "response")
            => exit_code = 1
    /\ ppc = "done" => ((tests_passed = tests_run) <=> AllMatched)
C7_Witness ==
    /\ ppc = "done"
    /\ exit_code = 0
    /\ AllMatched
    /\ tests_passed = 6

\* C8: a failure of any probe (mismatch, timeout, exception, or a payload of
\* an unexpected shape) is recorded as a failed test and never aborts the
\* run: each of the six probes is executed exactly once, in order, and
\* main() reaches the summary with tests_run = 6.
UnexpectedShape ==
    /\ Len(executed) >= 4
    /\ Matched(4)
    /\ ~(ret[2].type = "dict" /\ ret[2].error = "dict"
         /\ ret[2].code = "SERVICE_UNAVAILABLE")
C8_FailuresNeverAbort ==
    /\ Terminated => (ppc = "done" /\ tests_run = 6 /\ executed = Probes)
    /\ (ppc = "empty" /\ UnexpectedShape) =>
            \E i \in 1..Len(failed_tests) : failed_tests[i] = "valid"

====
